---- MODULE Spec2Model ----
(***************************************************************************)
(* Model of svisual-rs (src/src/lib.rs): the signal map SVMap<N, P> with   *)
(* its set / next operations, and the package serializer send_package      *)
(* writing byte by byte to an embedded-hal serial sink.                    *)
(*                                                                         *)
(* A &'static str is modelled as the sequence of its bytes, an [i32; P]    *)
(* as a function on 0..P-1, and the heapless LinearMap as the sequence of  *)
(* its entries in insertion order (the order its iterators yield).         *)
(*                                                                         *)
(* Spec is the map under set and next with a closure that only looks at    *)
(* the map it is handed. SendSpec is the map under set and next with a     *)
(* closure that calls send_package, the sink answering each write and      *)
(* flush with Ok, WouldBlock or an error. NameSpec is an application that  *)
(* makes its Name of an arbitrary string with Name::new before it calls    *)
(* set or send_package. BlockSpec is one send_package to a sink whose      *)
(* WouldBlock answers are counted, with the fairness of a busy loop.       *)
(***************************************************************************)
EXTENDS Integers, Sequences, FiniteSets, TLC

\* ------------------------------------------------------------ bounds

\* Largest package size P and map capacity N the model instantiates.
MaxP == 3
MaxN == 2
\* How many set and next calls one run of Spec makes.
MaxSets == 4
MaxTicks == 6
\* How many set, next and send_package calls one run of SendSpec makes.
SendSets == 2
SendTicks == 3
MaxSends == 2
\* How many set, next and send_package calls one run of NameSpec makes.
NameSets == 1
NameTicks == 2
NameSends == 1
\* How many set and next calls one run of BlockSpec makes (it sends once),
\* and how many times its sink answers WouldBlock during one send_package.
BlockSets == 1
BlockTicks == 2
MaxBlocks == 2

\* ------------------------------------------------------------ inputs

\* Signal names "a", "bb...b" (23 bytes, the longest Name::new accepts) and
\* "p", as bytes.
NameA == <<97>>
NameB == [i \in 1..23 |-> 98]
NameP == <<112>>
SignalNames == {NameA, NameB, NameP}
\* Module names "m" and "m\0" (Name::new accepts a NUL byte in a name).
ModuleM == <<109>>
ModuleMNul == <<109, 0>>
ModuleNames == {ModuleM, ModuleMNul}

\* Strings an application may hand to Name::new: "", "m", "m\0", "=end",
\* "=end=", "=end!", "=begin=", "=begin!", "=begin=x", and "bb...b" of 22, 23,
\* 24 and 25 bytes.
Bs(n) == [i \in 1..n |-> 98]
Candidates ==
    {<<>>, ModuleM, ModuleMNul,
     <<61, 101, 110, 100>>, <<61, 101, 110, 100, 61>>, <<61, 101, 110, 100, 33>>,
     <<61, 98, 101, 103, 105, 110, 61>>, <<61, 98, 101, 103, 105, 110, 33>>,
     <<61, 98, 101, 103, 105, 110, 61, 120>>,
     Bs(22), Bs(23), Bs(24), Bs(25)}

\* An f32 is its IEEE-754 fields; -1.5f32, the bits 0xBFC00000.
F32MinusOneAndHalf == [sign |-> 1, exp |-> 127, frac |-> 4194304]

\* The set calls of the application, per overload: <<name, value>>.
\* "p" is set through OnlyFront and through nothing else.
I32Calls == {<<NameA, 7>>, <<NameA, 9>>}
F32Calls == {<<NameA, F32MinusOneAndHalf>>}
BoolCalls == {<<NameB, TRUE>>}
OnlyFrontCalls == {<<NameP, TRUE>>}

\* Errors the serial sink may answer with (nb::Error::Other(e)).
SinkErrors == {"Overrun"}

\* ------------------------------------------------------------ state

VARIABLES
    P,            \* const generic P of SVMap<N, P>
    N,            \* const generic N of SVMap<N, P>
    current,      \* SVStruct.current
    map,          \* SVStruct.map: sequence of [name, rec]
    result,       \* what the set call just made returned
    pc,           \* "idle", or "send" while next's closure runs send_package
    previous,     \* next's local `previous`, kept while the closure runs
    module,       \* the application's module name, send_package's argument
    chunk,        \* which bwrite_iter / bflush of send_package is running
    k,            \* bytes of the running bwrite_iter's iterator consumed so far
    tx,           \* bytes the sink accepted in the send_package call running
                  \* or just returned
    offered,      \* bytes that call handed to Write::write and got an answer
                  \* other than WouldBlock for
    sendResult,   \* what that call returned
    sinkError,    \* the error the sink answered that call with, if any
    blocks,       \* WouldBlock answers the sink gave that call, where counted
    sendLog,      \* what each finished send_package returned, in call order
    \* history variables
    lastOverload, \* per name: the overload of its last successful set
    calls,        \* next calls since the cursor last stood at 0
    flushCount,   \* closure invocations during those calls
    slotLog,      \* per name: the sample each slot of the running window held
    setSlots,     \* per name set in the running window: the slots it was set in
    held,         \* per name registered before the running window: its sample
                  \* in the last slot before the window
    fronts,       \* per name: slots of the window with set(OnlyFront(true))
    flushed,      \* what the closure observed in the next call running or
                  \* just made
    sets, ticks, sends   \* calls the run may still make

vars == <<P, N, current, map, result, pc, previous, module, chunk, k, tx,
          offered, sendResult, sinkError, blocks, sendLog, lastOverload, calls,
          flushCount, slotLog, setSlots, held, fronts, flushed, sets, ticks,
          sends>>

mapVars == <<P, N, current, map>>
callVars == <<pc, previous, module, chunk, k>>
sinkVars == <<tx, offered, sendResult, sinkError, blocks>>
histVars == <<lastOverload, calls, flushCount, slotLog, setSlots, held, fronts,
              flushed>>
budgetVars == <<sets, ticks, sends>>

\* ------------------------------------------------------------ values

NAME_MAX == 24

EmptyFn == [x \in {} |-> 0]

\* ValueType's discriminants, as `v.vtype as i32` reads them.
Discriminant(vtype) ==
    CASE vtype = "Bool" -> 0
      [] vtype = "Int" -> 1
      [] vtype = "Float" -> 2

\* Mutant of ValueRecNew: the slots filled with -1 for "no sample yet".
ValueRecNewUnset(vtype) ==
    [is_only_front |-> FALSE, vtype |-> vtype, vals |-> [i \in 0..(P - 1) |-> -1]]

\* ValueRec::new
ValueRecNew(vtype) ==
    [is_only_front |-> FALSE, vtype |-> vtype, vals |-> [i \in 0..(P - 1) |-> 0]]

\* Value::TYPE of each impl
ValueTYPE(overload) ==
    CASE overload = "i32" -> "Int"
      [] overload = "f32" -> "Float"
      [] overload = "bool" -> "Bool"
      [] overload = "OnlyFront" -> "Bool"

\* Value::ONLY_FRONT of each impl
ValueONLY_FRONT(overload) ==
    CASE overload = "i32" -> FALSE
      [] overload = "f32" -> FALSE
      [] overload = "bool" -> FALSE
      [] overload = "OnlyFront" -> FALSE

\* f32::to_bits followed by `as i32`: the bit pattern read as two's complement.
F32ToI32(f) ==
    (IF f.sign = 1 THEN (-1073741824) * 2 ELSE 0) + f.exp * 8388608 + f.frac

\* bool as i32
BoolToI32(b) == IF b THEN 1 ELSE 0

\* ------------------------------------------------------------ LinearMap

Keys(m) == {m[i].name : i \in 1..Len(m)}

contains_key(m, name) == name \in Keys(m)

IndexOf(m, name) == CHOOSE i \in 1..Len(m) : m[i].name = name

get(m, name) == m[IndexOf(m, name)].rec

\* Mutant of insert: a full map drops its oldest entry to make room.
insertEvicting(m, name, rec) ==
    IF Len(m) >= N
    THEN [is_err |-> FALSE,
          map |-> Append(Tail(m), [name |-> name, rec |-> rec])]
    ELSE [is_err |-> FALSE, map |-> Append(m, [name |-> name, rec |-> rec])]

\* Mutant of insert: the capacity test off by one.
insertOffByOne(m, name, rec) ==
    IF Len(m) > N
    THEN [is_err |-> TRUE, map |-> m]
    ELSE [is_err |-> FALSE, map |-> Append(m, [name |-> name, rec |-> rec])]

\* LinearMap::insert of a key not in the map: Err when the map holds N entries.
insert(m, name, rec) ==
    IF Len(m) >= N
    THEN [is_err |-> TRUE, map |-> m]
    ELSE [is_err |-> FALSE, map |-> Append(m, [name |-> name, rec |-> rec])]

\* ------------------------------------------------------------ SVMap

\* Mutant of set_value: get_mut yields the first entry, not the name's.
set_valueFirstEntry(m, cur, name, vtype, val, only_pos_front) ==
    LET ins == IF ~contains_key(m, name)
               THEN insert(m, name, ValueRecNew(vtype))
               ELSE [is_err |-> FALSE, map |-> m]
    IN  IF ins.is_err
        THEN [res |-> "MapOverflow", map |-> m]
        ELSE [res |-> "Ok",
              map |-> [ins.map EXCEPT ![1].rec.vals[cur] = val,
                                      ![1].rec.is_only_front = only_pos_front]]

\* Mutant of set_value: the capacity tested before the key is looked up.
set_valueFullFirst(m, cur, name, vtype, val, only_pos_front) ==
    IF Len(m) >= N
    THEN [res |-> "MapOverflow", map |-> m]
    ELSE LET ins == IF ~contains_key(m, name)
                    THEN Append(m, [name |-> name, rec |-> ValueRecNew(vtype)])
                    ELSE m
             i == IndexOf(ins, name)
         IN  [res |-> "Ok",
              map |-> [ins EXCEPT ![i].rec.vals[cur] = val,
                                  ![i].rec.is_only_front = only_pos_front]]

\* Mutant of set_value: the record's vtype rewritten by every call.
set_valueRetype(m, cur, name, vtype, val, only_pos_front) ==
    LET ins == IF ~contains_key(m, name)
               THEN insert(m, name, ValueRecNew(vtype))
               ELSE [is_err |-> FALSE, map |-> m]
    IN  IF ins.is_err
        THEN [res |-> "MapOverflow", map |-> m]
        ELSE LET i == IndexOf(ins.map, name)
             IN  [res |-> "Ok",
                  map |-> [ins.map EXCEPT ![i].rec.vals[cur] = val,
                                          ![i].rec.vtype = vtype,
                                          ![i].rec.is_only_front = only_pos_front]]

\* SVMap::set_value: the result and the map it leaves.
set_value(m, cur, name, vtype, val, only_pos_front) ==
    LET ins == IF ~contains_key(m, name)
               THEN insert(m, name, ValueRecNew(vtype))
               ELSE [is_err |-> FALSE, map |-> m]
    IN  IF ins.is_err
        THEN [res |-> "MapOverflow", map |-> m]
        ELSE LET i == IndexOf(ins.map, name)
             IN  [res |-> "Ok",
                  map |-> [ins.map EXCEPT ![i].rec.vals[cur] = val,
                                          ![i].rec.is_only_front = only_pos_front]]

\* Mutant of Wraps: > for >=.
WrapsLate(c) == c > P

\* next, line 182: whether the incremented cursor wraps.
Wraps(c) == c >= P

\* Mutant of NextCurrent: line 183 left out.
NextCurrentNoReset(c) == c + 1

\* next, lines 181-185: the cursor after the call.
NextCurrent(c) == IF Wraps(c + 1) THEN c + 1 - P ELSE c + 1

\* Mutant of RollForward: the two indices of line 187 exchanged.
RollForwardSwapped(m, cur, prev) ==
    [i \in 1..Len(m) |->
        [m[i] EXCEPT !.rec.vals[prev] =
            IF m[i].rec.is_only_front THEN 0 ELSE m[i].rec.vals[cur]]]

\* Mutant of RollForward: the test of is_only_front inverted.
RollForwardInverted(m, cur, prev) ==
    [i \in 1..Len(m) |->
        [m[i] EXCEPT !.rec.vals[cur] =
            IF ~m[i].rec.is_only_front THEN 0 ELSE m[i].rec.vals[prev]]]

\* next, lines 186-188: every record's slot `cur` takes its hold value.
RollForward(m, cur, prev) ==
    [i \in 1..Len(m) |->
        [m[i] EXCEPT !.rec.vals[cur] =
            IF m[i].rec.is_only_front THEN 0 ELSE m[i].rec.vals[prev]]]

\* Mutant of AtFlush: the closure called after the loop of lines 186-188.
AtFlushRolled(m, cur, prev) == [current |-> cur, map |-> RollForward(m, cur, prev)]

\* What the closure is handed at line 184: the map with the cursor reset and
\* the roll-forward of lines 186-188 not yet made.
AtFlush(m, cur, prev) == [current |-> cur, map |-> m]

\* ------------------------------------------------------------ send_package

\* Mutant of ToLeBytes: the bytes in big-endian order.
ToBeBytes(n) ==
    <<(n \div 16777216) % 256, (n \div 65536) % 256, (n \div 256) % 256, n % 256>>

\* u32::to_le_bytes and i32::to_le_bytes (two's complement: \div floors, %
\* is non-negative).
ToLeBytes(n) ==
    <<n % 256, (n \div 256) % 256, (n \div 65536) % 256, (n \div 16777216) % 256>>

\* repeat(0).take(n)
Zeros(n) == [i \in 1..n |-> 0]

BeginBytes == <<61, 98, 101, 103, 105, 110, 61>>
EndBytes == <<61, 101, 110, 100, 61>>

\* lines 212-214
VlSize == NAME_MAX + 4 + P * 4

\* Mutant of FullSize: the module name's NAME_MAX bytes left out.
FullSizeNoModule(values) == VlSize * Len(values.map)

FullSize(values) == NAME_MAX + VlSize * Len(values.map)

\* The padded name, lines 222-223 and 230-231.
Padded(name) == name \o Zeros(NAME_MAX - Len(name))

\* v.vals.iter().flat_map(|val| val.to_le_bytes()), line 235
ValsBytes(vals) ==
    [j \in 1..(4 * P) |-> ToLeBytes(vals[(j - 1) \div 4])[((j - 1) % 4) + 1]]

\* The iterator of the opening bwrite_iter, lines 217-224.
OpenBytes(mod, values) ==
    BeginBytes \o ToLeBytes(FullSize(values)) \o Padded(mod)

\* The iterator of one signal's bwrite_iter, lines 229-236.
RecordBytes(e) ==
    Padded(e.name) \o ToLeBytes(Discriminant(e.rec.vtype)) \o ValsBytes(e.rec.vals)

\* The iterator of the bwrite_iter number c of a send_package call: 0 opens,
\* 1..len are the signals in iteration order, len + 1 closes.
ChunkBytes(c, mod, values) ==
    IF c = 0 THEN OpenBytes(mod, values)
    ELSE IF c <= Len(values.map) THEN RecordBytes(values.map[c])
    ELSE EndBytes

LastChunk(values) == Len(values.map) + 1

\* ------------------------------------------------------------ Name

\* equal, lines 272-286: the loop from index i on (bytes are indexed from 0
\* in the code and from 1 here).
RECURSIVE EqualFrom(_, _, _)
EqualFrom(fb, sb, i) ==
    IF i < Len(fb)
    THEN IF fb[i + 1] # sb[i + 1] THEN FALSE ELSE EqualFrom(fb, sb, i + 1)
    ELSE TRUE

equal(first, second) ==
    IF Len(first) # Len(second) THEN FALSE ELSE EqualFrom(first, second, 0)

\* Mutant of NameNew: <= for < in the length assertion.
NameNewInclusive(name) ==
    IF Len(name) = 0 THEN [panics |-> TRUE]
    ELSE IF ~(Len(name) <= NAME_MAX) THEN [panics |-> TRUE]
    ELSE IF equal(name, EndBytes) THEN [panics |-> TRUE]
    ELSE IF equal(name, BeginBytes) THEN [panics |-> TRUE]
    ELSE [panics |-> FALSE, name |-> name]

\* Mutant of NameNew: the is_empty assertion left out.
NameNewNoEmptyCheck(name) ==
    IF ~(Len(name) < NAME_MAX) THEN [panics |-> TRUE]
    ELSE IF equal(name, EndBytes) THEN [panics |-> TRUE]
    ELSE IF equal(name, BeginBytes) THEN [panics |-> TRUE]
    ELSE [panics |-> FALSE, name |-> name]

\* Name::new, lines 263-269: a failed assert! panics (in a const context,
\* fails the build); otherwise the Name wrapping the string.
NameNew(name) ==
    IF Len(name) = 0 THEN [panics |-> TRUE]
    ELSE IF ~(Len(name) < NAME_MAX) THEN [panics |-> TRUE]
    ELSE IF equal(name, EndBytes) THEN [panics |-> TRUE]
    ELSE IF equal(name, BeginBytes) THEN [panics |-> TRUE]
    ELSE [panics |-> FALSE, name |-> name]

\* ------------------------------------------------------------ actions

Self == [current |-> current, map |-> map]

Lookup(f, n, default) == IF n \in DOMAIN f THEN f[n] ELSE default

\* No closure was invoked by the call just made.
Unseen ==
    [seen |-> FALSE, obs |-> [current |-> 0, map |-> <<>>], log |-> EmptyFn,
     setSlots |-> EmptyFn, held |-> EmptyFn, fronts |-> EmptyFn,
     last |-> EmptyFn]

\* SVMap::new, with the sink idle; P and N are the instantiation's.
InitMap ==
    /\ P \in 1..MaxP
    /\ N \in 1..MaxN
    /\ current = 0
    /\ map = <<>>
    /\ result = "none"
    /\ pc = "idle"
    /\ previous = 0
    /\ chunk = 0
    /\ k = 0
    /\ tx = <<>>
    /\ offered = 0
    /\ sendResult = "none"
    /\ sinkError = "none"
    /\ blocks = 0
    /\ sendLog = <<>>
    /\ lastOverload = EmptyFn
    /\ calls = 0
    /\ flushCount = 0
    /\ slotLog = EmptyFn
    /\ setSlots = EmptyFn
    /\ held = EmptyFn
    /\ fronts = EmptyFn
    /\ flushed = Unseen

Init ==
    /\ InitMap
    /\ module = ModuleM
    /\ sets = MaxSets
    /\ ticks = MaxTicks
    /\ sends = 0

SendInit ==
    /\ InitMap
    /\ module \in ModuleNames
    /\ sets = SendSets
    /\ ticks = SendTicks
    /\ sends = MaxSends

\* The sink's answers of a returned send_package are forgotten at the next call.
SinkIdle ==
    /\ tx' = <<>>
    /\ offered' = 0
    /\ sendResult' = "none"
    /\ sinkError' = "none"
    /\ blocks' = 0

\* SVMap::set::<T>(name, value), with val = value.to_i32().
Set(name, overload, val) ==
    LET r == set_value(map, current, name, ValueTYPE(overload), val,
                       ValueONLY_FRONT(overload))
        ok == r.res = "Ok"
    IN  /\ pc = "idle"
        /\ sets > 0
        /\ sets' = sets - 1
        /\ map' = r.map
        /\ result' = r.res
        /\ lastOverload' =
             IF ok THEN [n \in Keys(r.map) |->
                            IF n = name THEN overload ELSE lastOverload[n]]
             ELSE lastOverload
        /\ setSlots' =
             IF ok
             THEN [n \in DOMAIN setSlots \cup {name} |->
                      IF n = name
                      THEN Lookup(setSlots, n, {}) \cup {current}
                      ELSE setSlots[n]]
             ELSE setSlots
        /\ fronts' =
             IF ok /\ overload = "OnlyFront" /\ val = 1
             THEN [n \in DOMAIN fronts \cup {name} |->
                      IF n = name
                      THEN Lookup(fronts, n, {}) \cup {current}
                      ELSE fronts[n]]
             ELSE fronts
        /\ flushed' = Unseen
        /\ SinkIdle
        /\ UNCHANGED <<P, N, current, callVars, sendLog, calls, flushCount,
                       slotLog, held, ticks, sends>>

SetI32(name, v) == Set(name, "i32", v)
SetF32(name, f) == Set(name, "f32", F32ToI32(f))
SetBool(name, b) == Set(name, "bool", BoolToI32(b))
SetOnlyFront(name, b) == Set(name, "OnlyFront", BoolToI32(b))

\* The history of one next call: the slot the cursor leaves is logged, and a
\* wrap closes the window.
Tock(wrapped) ==
    LET log1 == [n \in Keys(map) |->
                    Lookup(slotLog, n, EmptyFn)
                        @@ (current :> get(map, n).vals[current])]
    IN  /\ ticks' = ticks - 1
        /\ result' = "none"
        /\ calls' = IF current = 0 THEN 1 ELSE calls + 1
        /\ flushCount' = (IF current = 0 THEN 0 ELSE flushCount)
                            + (IF wrapped THEN 1 ELSE 0)
        /\ IF wrapped
           THEN /\ flushed' = [seen |-> TRUE,
                               obs |-> AtFlush(map, NextCurrent(current), current),
                               log |-> log1, setSlots |-> setSlots,
                               held |-> held,
                               fronts |-> fronts, last |-> lastOverload]
                /\ slotLog' = EmptyFn
                /\ setSlots' = EmptyFn
                /\ held' = [n \in Keys(map) |-> get(map, n).vals[P - 1]]
                /\ fronts' = EmptyFn
           ELSE /\ flushed' = Unseen
                /\ slotLog' = log1
                /\ UNCHANGED <<setSlots, held, fronts>>

\* next(f) with a closure that only looks at the map (or is not invoked).
NextObserve ==
    /\ pc = "idle"
    /\ ticks > 0
    /\ current' = NextCurrent(current)
    /\ map' = RollForward(map, NextCurrent(current), current)
    /\ Tock(Wraps(current + 1))
    /\ SinkIdle
    /\ UNCHANGED <<P, N, callVars, sendLog, lastOverload, sets, sends>>

\* next(|m| tx.send_package(module, m)) on a wrapping call: lines 180-184, up
\* to the closure's first write to the sink.
NextSend ==
    /\ pc = "idle"
    /\ ticks > 0
    /\ sends > 0
    /\ Wraps(current + 1)
    /\ current' = NextCurrent(current)
    /\ previous' = current
    /\ pc' = "send"
    /\ chunk' = 0
    /\ k' = 0
    /\ tx' = <<>>
    /\ offered' = 0
    /\ sendResult' = "running"
    /\ sinkError' = "none"
    /\ blocks' = 0
    /\ sends' = sends - 1
    /\ Tock(TRUE)
    /\ UNCHANGED <<P, N, map, module, sendLog, lastOverload, sets>>

Writing == pc = "send" /\ k < Len(ChunkBytes(chunk, module, Self))
Flushing == pc = "send" /\ k = Len(ChunkBytes(chunk, module, Self))

\* send_package returns r to the closure, which returns to next: lines
\* 186-188 run.
Return(r) ==
    /\ sendResult' = r
    /\ sendLog' = Append(sendLog, r)
    /\ pc' = "idle"
    /\ map' = RollForward(map, current, previous)
    /\ UNCHANGED <<P, N, current, result, previous, module, chunk, k, blocks,
                   histVars, budgetVars>>

\* Write::write(c) answers Ok: try_for_each goes on to the next byte.
WriteOk ==
    /\ Writing
    /\ tx' = Append(tx, ChunkBytes(chunk, module, Self)[k + 1])
    /\ offered' = Len(tx) + 1
    /\ k' = k + 1
    /\ UNCHANGED <<mapVars, result, pc, previous, module, chunk, sendResult,
                   sinkError, blocks, sendLog, histVars, budgetVars>>

\* Write::write(c) answers WouldBlock: nb::block! calls it again.
WriteWouldBlock ==
    /\ Writing
    /\ UNCHANGED vars

\* Mutant of WriteErr: the error dropped and the byte skipped.
WriteErrIgnored(e) ==
    /\ Writing
    /\ offered' = Len(tx) + 1
    /\ sinkError' = e
    /\ k' = k + 1
    /\ UNCHANGED <<mapVars, result, pc, previous, module, chunk, tx,
                   sendResult, blocks, sendLog, histVars, budgetVars>>

\* Write::write(c) answers Other(e): bwrite_iter returns it and ? returns.
WriteErr(e) ==
    /\ Writing
    /\ offered' = Len(tx) + 1
    /\ sinkError' = e
    /\ UNCHANGED tx
    /\ Return(e)

\* Write::flush answers Ok: the next bwrite_iter starts, or Ok(()) returns.
FlushOk ==
    /\ Flushing
    /\ IF chunk = LastChunk(Self)
       THEN /\ Return("Ok")
            /\ UNCHANGED <<tx, offered, sinkError>>
       ELSE /\ chunk' = chunk + 1
            /\ k' = 0
            /\ UNCHANGED <<mapVars, result, pc, previous, module, sinkVars,
                           sendLog, histVars, budgetVars>>

\* Write::flush answers WouldBlock: nb::block! calls it again.
FlushWouldBlock ==
    /\ Flushing
    /\ UNCHANGED vars

\* Write::flush answers Other(e).
FlushErr(e) ==
    /\ Flushing
    /\ sinkError' = e
    /\ UNCHANGED <<tx, offered>>
    /\ Return(e)

MapNext ==
    \/ \E c \in I32Calls : SetI32(c[1], c[2])
    \/ \E c \in F32Calls : SetF32(c[1], c[2])
    \/ \E c \in BoolCalls : SetBool(c[1], c[2])
    \/ \E c \in OnlyFrontCalls : SetOnlyFront(c[1], c[2])
    \/ NextObserve

Next == MapNext

SendNext ==
    \/ MapNext
    \/ NextSend
    \/ WriteOk
    \/ WriteWouldBlock
    \/ \E e \in SinkErrors : WriteErr(e)
    \/ FlushOk
    \/ FlushWouldBlock
    \/ \E e \in SinkErrors : FlushErr(e)

\* An application whose one string `module` names both its module and its
\* signal: it makes a Name of the string at each call site.
NameInit ==
    /\ InitMap
    /\ module \in Candidates
    /\ sets = NameSets
    /\ ticks = NameTicks
    /\ sends = NameSends

\* Name::new(module) panics: the set or send_package it was meant for is
\* never called.
Rejected ==
    /\ pc = "idle"
    /\ NameNew(module).panics
    /\ pc' = "rejected"
    /\ UNCHANGED <<mapVars, result, previous, module, chunk, k, sinkVars,
                   sendLog, histVars, budgetVars>>

\* set(&Name::new(module), v)
NameSet(v) ==
    /\ ~NameNew(module).panics
    /\ SetI32(NameNew(module).name, v)

\* next(|m| tx.send_package(&Name::new(module), m)) on a wrapping call
NameNextSend ==
    /\ ~NameNew(module).panics
    /\ NextSend

NameNext ==
    \/ Rejected
    \/ NameSet(7)
    \/ NextObserve
    \/ NameNextSend
    \/ WriteOk
    \/ WriteWouldBlock
    \/ \E e \in SinkErrors : WriteErr(e)
    \/ FlushOk
    \/ FlushWouldBlock
    \/ \E e \in SinkErrors : FlushErr(e)

\* One send_package to a sink whose WouldBlock answers are counted.
BlockInit ==
    /\ InitMap
    /\ module = ModuleM
    /\ sets = BlockSets
    /\ ticks = BlockTicks
    /\ sends = 1

\* Mutant of WriteBlocked: the byte given up on WouldBlock, try_for_each
\* going on to the next one.
WriteBlockedDropped ==
    /\ Writing
    /\ blocks < MaxBlocks
    /\ blocks' = blocks + 1
    /\ k' = k + 1
    /\ UNCHANGED <<mapVars, result, pc, previous, module, chunk, tx, offered,
                   sendResult, sinkError, sendLog, histVars, budgetVars>>

\* Write::write(c) answers WouldBlock, counted: nb::block! loops and calls
\* write(c) again with the same byte.
WriteBlocked ==
    /\ Writing
    /\ blocks < MaxBlocks
    /\ blocks' = blocks + 1
    /\ UNCHANGED <<mapVars, result, callVars, tx, offered, sendResult,
                   sinkError, sendLog, histVars, budgetVars>>

\* Write::flush answers WouldBlock, counted: nb::block! calls it again.
FlushBlocked ==
    /\ Flushing
    /\ blocks < MaxBlocks
    /\ blocks' = blocks + 1
    /\ UNCHANGED <<mapVars, result, callVars, tx, offered, sendResult,
                   sinkError, sendLog, histVars, budgetVars>>

\* The sink answers the write or flush send_package is blocked on.
SinkAnswers ==
    \/ WriteOk
    \/ WriteBlocked
    \/ \E e \in SinkErrors : WriteErr(e)
    \/ FlushOk
    \/ FlushBlocked
    \/ \E e \in SinkErrors : FlushErr(e)

BlockNext ==
    \/ \E c \in BoolCalls : SetBool(c[1], c[2])
    \/ NextObserve
    \/ NextSend
    \/ SinkAnswers

Spec == Init /\ [][Next]_vars

SendSpec == SendInit /\ [][SendNext]_vars

NameSpec == NameInit /\ [][NameNext]_vars

\* nb::block! is a busy loop: while send_package runs, write or flush is
\* called again and again, and each call is answered.
BlockSpec == BlockInit /\ [][BlockNext]_vars /\ WF_vars(SinkAnswers)

\* ------------------------------------------------------------ properties

\* The entries of the map the closure was handed.
Seen == {flushed.obs.map[i] : i \in 1..Len(flushed.obs.map)}

Slots == 0..(P - 1)

\* C1: P consecutive next calls from current = 0 invoke the closure exactly
\* once, in the P-th call, and leave current = 0; before the P-th call the
\* closure has not run and the cursor stands at the number of calls made.
\* With P = 1 every call is the P-th.
FlushOncePerP ==
    /\ calls \in 0..P
    /\ calls = P => (flushCount = 1 /\ current = 0)
    /\ (0 < calls /\ calls < P) => (flushCount = 0 /\ current = calls)

\* C1 witness: three calls made from current = 0 with P = 3.
FlushOncePerPWitness == P = 3 /\ calls = 3 /\ flushCount = 1 /\ current = 0

\* C2: the cursor stays in [0, P), and every record has exactly the slots
\* 0..P-1, so vals[current] is in bounds.
CursorInRange ==
    /\ current \in 0..(P - 1)
    /\ \A i \in 1..Len(map) : DOMAIN map[i].rec.vals = 0..(P - 1)

\* C2 witness: a full map with the cursor on the last slot after a wrap.
CursorInRangeWitness ==
    P >= 2 /\ current = P - 1 /\ Len(map) = N /\ ticks < MaxTicks - P

\* C3: the map the closure is handed has current = 0 and holds, in every
\* slot, the sample the signal had when the cursor left that slot in the
\* window that just ended; slot 0 takes its hold value only afterwards.
FlushSeesEndedWindow ==
    flushed.seen =>
        /\ flushed.obs.current = 0
        /\ \A e \in Seen :
              /\ (P - 1) \in DOMAIN flushed.log[e.name]
              /\ \A s \in DOMAIN flushed.log[e.name] :
                    e.rec.vals[s] = flushed.log[e.name][s]

\* C3 witness: P = 2, set("a", 7); next; set("a", 9); next: the closure sees
\* [7, 9], and after the call slot 0 holds 9.
FlushSeesEndedWindowWitness ==
    /\ P = 2
    /\ flushed.seen
    /\ Len(flushed.obs.map) = 1
    /\ flushed.obs.map[1].name = NameA
    /\ flushed.obs.map[1].rec.vals[0] = 7
    /\ flushed.obs.map[1].rec.vals[1] = 9
    /\ pc = "idle"
    /\ map[1].rec.vals[0] = 9

\* C4: at the flush ending a window, a signal with is_only_front = false
\* that was registered before the window and not set in it shows, in every
\* slot, the sample of its last slot before the window; and any slot after
\* the signal's first set in which it was not set repeats the slot before.
HoldAcrossWindow ==
    flushed.seen =>
        \A e \in Seen :
            ~e.rec.is_only_front =>
                LET set == Lookup(flushed.setSlots, e.name, {})
                    old == e.name \in DOMAIN flushed.held
                IN  /\ (old /\ set = {}) =>
                          \A s \in Slots : e.rec.vals[s] = flushed.held[e.name]
                    /\ \A s \in Slots \ set :
                          /\ (s = 0 /\ old) => e.rec.vals[0] = flushed.held[e.name]
                          /\ (s > 0 /\ (old \/ \E t \in set : t < s)) =>
                                e.rec.vals[s] = e.rec.vals[s - 1]

\* C4 witness: P = 3, a window without a set of "bb...b", flushed as
\* [1, 1, 1].
HoldAcrossWindowWitness ==
    /\ P = 3
    /\ flushed.seen
    /\ \E e \in Seen :
          /\ e.name = NameB
          /\ e.name \in DOMAIN flushed.held
          /\ e.name \notin DOMAIN flushed.setSlots
          /\ \A s \in Slots : e.rec.vals[s] = 1

\* C5 (the claim as stated): a record's is_only_front is true exactly when
\* the last successful set of its name went through OnlyFront.
OnlyFrontFlagFollowsOverload ==
    \A i \in 1..Len(map) :
        map[i].rec.is_only_front = (lastOverload[map[i].name] = "OnlyFront")

\* C6 (the claim as stated): in the map the closure is handed, a signal set
\* through OnlyFront is non-zero only in slots where set(OnlyFront(true)) was
\* called during the window.
OnlyFrontSlotsAreFronts ==
    flushed.seen =>
        \A e \in Seen :
            flushed.last[e.name] = "OnlyFront" =>
                \A s \in Slots :
                    e.rec.vals[s] # 0 => s \in Lookup(flushed.fronts, e.name, {})

\* The application's set calls with the 32-bit word each stores.
RawCalls ==
    {<<NameA, "i32", 7>>, <<NameA, "i32", 9>>, <<NameA, "f32", -1077936128>>,
     <<NameB, "bool", 1>>, <<NameP, "OnlyFront", 1>>}

\* C7: a set of an unregistered name on a map holding N signals returns
\* MapOverflow and changes nothing; a set of a registered name returns Ok
\* and stores the value in the current slot, full map or not.
OverflowLeavesMap ==
    [][\A c \in RawCalls :
          Set(c[1], c[2], c[3]) =>
              /\ (c[1] \notin Keys(map) /\ Len(map) >= N) =>
                    /\ result' = "MapOverflow"
                    /\ map' = map
                    /\ current' = current
              /\ c[1] \in Keys(map) =>
                    /\ result' = "Ok"
                    /\ Keys(map') = Keys(map)
                    /\ get(map', c[1]).vals[current] = c[3]]_vars

\* C7 witness: N = 2, two signals registered, the set just made overflowed,
\* and another set may follow.
OverflowLeavesMapWitness ==
    N = 2 /\ Len(map) = 2 /\ result = "MapOverflow" /\ sets > 0

\* ------------------------------------------------------------ the wire

\* The wire layout of a package, position by position: what byte number i
\* (from 1) of the package of module `mod` and the observed map is.
RefCode(vtype) == IF vtype = "Bool" THEN 0 ELSE IF vtype = "Int" THEN 1 ELSE 2

RefPow(j) == IF j = 0 THEN 1 ELSE IF j = 1 THEN 256 ELSE IF j = 2 THEN 65536 ELSE 16777216

RefLeByte(n, j) == (n \div RefPow(j)) % 256

RefPadByte(name, j) == IF j < Len(name) THEN name[j + 1] ELSE 0

RefRecordSize == 24 + 4 + 4 * P

RefFullSize == 24 + RefRecordSize * Len(flushed.obs.map)

RefLen == 7 + 4 + RefFullSize + 5

RefByte(i) ==
    LET off == i - 1
        body == off - 35
    IN  IF off < 7 THEN <<61, 98, 101, 103, 105, 110, 61>>[i]
        ELSE IF off < 11 THEN RefLeByte(RefFullSize, off - 7)
        ELSE IF off < 35 THEN RefPadByte(module, off - 11)
        ELSE IF off < 11 + RefFullSize
        THEN LET e == flushed.obs.map[(body \div RefRecordSize) + 1]
                 o == body % RefRecordSize
             IN  IF o < 24 THEN RefPadByte(e.name, o)
                 ELSE IF o < 28 THEN RefLeByte(RefCode(e.rec.vtype), o - 24)
                 ELSE RefLeByte(e.rec.vals[(o - 28) \div 4], (o - 28) % 4)
        ELSE <<61, 101, 110, 100, 61>>[off - 11 - RefFullSize + 1]

\* The map is the one the closure was handed, but for the slot next seeds
\* after the closure returns.
MapAsHanded ==
    /\ current = flushed.obs.current
    /\ Len(map) = Len(flushed.obs.map)
    /\ \A i \in 1..Len(map) :
          /\ map[i].name = flushed.obs.map[i].name
          /\ map[i].rec.vtype = flushed.obs.map[i].rec.vtype
          /\ map[i].rec.is_only_front = flushed.obs.map[i].rec.is_only_front
          /\ \A s \in Slots \ {current} :
                map[i].rec.vals[s] = flushed.obs.map[i].rec.vals[s]

\* While send_package runs the map is the one it was handed.
SendBorrowsMap ==
    pc = "send" =>
        /\ sendResult = "running"
        /\ map = flushed.obs.map
        /\ current = flushed.obs.current

\* When the sink answers an error send_package returns that error at once,
\* the sink has accepted a prefix of the package and was handed at most the
\* one failing byte more, and the map is unchanged.
ErrorAborts ==
    (sinkError \in SinkErrors \/ sendResult \in SinkErrors) =>
        /\ pc = "idle"
        /\ sendResult = sinkError
        /\ sendLog[Len(sendLog)] = sinkError
        /\ Len(tx) <= RefLen
        /\ \A i \in 1..Len(tx) : tx[i] = RefByte(i)
        /\ offered \in {Len(tx), Len(tx) + 1}
        /\ MapAsHanded

\* The send_package that follows a failed one, if it returns Ok, has emitted
\* the complete package.
NextPackageComplete ==
    (sendResult = "Ok" /\ Len(sendLog) > 1
        /\ sendLog[Len(sendLog) - 1] \in SinkErrors) =>
            /\ Len(tx) = RefLen
            /\ \A i \in 1..Len(tx) : tx[i] = RefByte(i)

\* C8 (the claim as stated): on a sink error, of a write or of a flush, the
\* bytes accepted so far are a proper prefix of the package.
SinkErrorLeavesProperPrefix ==
    /\ SendBorrowsMap
    /\ ErrorAborts
    /\ sendResult \in SinkErrors => Len(tx) < RefLen
    /\ NextPackageComplete

\* C8 (amended): on a sink error the bytes accepted so far are a prefix of
\* the package, a proper one unless the error is that of the last flush,
\* when the sink has accepted the whole package.
SinkErrorAbortsPackage ==
    /\ SendBorrowsMap
    /\ ErrorAborts
    /\ (sendResult \in SinkErrors /\ Len(tx) = RefLen) => offered = Len(tx)
    /\ (sendResult \in SinkErrors /\ offered = Len(tx) + 1) => Len(tx) < RefLen
    /\ NextPackageComplete

\* C8 witness: a send_package failed on its 10th byte with a signal
\* registered.
SinkErrorAbortsPackageWitness ==
    /\ sendResult \in SinkErrors
    /\ Len(tx) = 9
    /\ offered = 10
    /\ Len(map) > 0

\* The u32 / i32 a host reads at offset off (from 0) of the stream.
U32At(s, off) ==
    s[off + 1] + 256 * s[off + 2] + 65536 * s[off + 3] + 16777216 * s[off + 4]

I32At(s, off) ==
    s[off + 1] + 256 * s[off + 2] + 65536 * s[off + 3]
        + 16777216 * (IF s[off + 4] >= 128 THEN s[off + 4] - 256 ELSE s[off + 4])

FieldAt(s, off, n) == SubSeq(s, off + 1, off + n)

\* C9: a successful send_package has written 7 + 4 + full_size + 5 bytes,
\* the full_size on the wire being NAME_MAX + (NAME_MAX + 4 + 4 * P) * M:
\* 60 for M = 1, P = 2 and 88 for M = 2, P = 1.
PackageLength ==
    sendResult = "Ok" =>
        LET M == Len(flushed.obs.map)
        IN  /\ Len(tx) >= 11
            /\ Len(tx) = 7 + 4 + U32At(tx, 7) + 5
            /\ U32At(tx, 7) = 24 + (24 + 4 + 4 * P) * M
            /\ (M = 1 /\ P = 2) => (U32At(tx, 7) = 60 /\ Len(tx) = 76)
            /\ (M = 2 /\ P = 1) => U32At(tx, 7) = 88

\* C9 witness: one signal and P = 2 give 76 bytes.
PackageLengthWitness ==
    sendResult = "Ok" /\ P = 2 /\ Len(flushed.obs.map) = 1 /\ Len(tx) = 76

\* A name field as a host reads it: the bytes before the first NUL.
CutAtNul(f) ==
    LET z == {i \in 1..Len(f) : f[i] = 0}
    IN  IF z = {} THEN f
        ELSE SubSeq(f, 1, (CHOOSE i \in z : \A j \in z : i <= j) - 1)

IsPadded(field, name) ==
    /\ Len(field) = 24
    /\ \A i \in 1..24 : field[i] = IF i <= Len(name) THEN name[i] ELSE 0

RecordAt(r) == 35 + RefRecordSize * (r - 1)

\* The stream has the frame of a package of M records.
Framed(s, M) ==
    /\ Len(s) = 7 + 4 + 24 + RefRecordSize * M + 5
    /\ FieldAt(s, 0, 7) = <<61, 98, 101, 103, 105, 110, 61>>
    /\ U32At(s, 7) = 24 + RefRecordSize * M
    /\ FieldAt(s, RecordAt(M + 1), 5) = <<61, 101, 110, 100, 61>>

\* What a positional parser makes of the stream.
Decoded(s) ==
    LET M == (U32At(s, 7) - 24) \div RefRecordSize
    IN  [module |-> CutAtNul(FieldAt(s, 11, 24)),
         signals |->
            {[name |-> CutAtNul(FieldAt(s, RecordAt(r), 24)),
              vtype |-> I32At(s, RecordAt(r) + 24),
              vals |-> [t \in Slots |-> I32At(s, RecordAt(r) + 28 + 4 * t)]]
                : r \in 1..M}]

\* The module name and name -> (vtype, vals) of the map at emission time.
Emitted ==
    [module |-> module,
     signals |->
        {[name |-> e.name, vtype |-> RefCode(e.rec.vtype), vals |-> e.rec.vals]
            : e \in Seen}]

NoNul(name) == \A i \in 1..Len(name) : name[i] # 0

\* C10 (the claim as stated): the stream of a successful send_package is
\* framed as a package of one record per registered signal, and decoding it
\* yields exactly the module name and name -> (vtype, vals).
PackageRoundTrip ==
    sendResult = "Ok" =>
        /\ Framed(tx, Len(flushed.obs.map))
        /\ Decoded(tx) = Emitted

\* C10 (amended): the stream is framed, the module field and every record's
\* name field are the names right-padded with NUL to 24 bytes, every record
\* carries its signal's type code and samples in slot order, and decoding
\* yields exactly the module name and name -> (vtype, vals) when no name
\* holds a NUL byte; a name holding one is decoded up to its first NUL.
PackageRoundTripNoNul ==
    sendResult = "Ok" =>
        /\ Framed(tx, Len(flushed.obs.map))
        /\ IsPadded(FieldAt(tx, 11, 24), module)
        /\ Decoded(tx).module = CutAtNul(module)
        /\ \A r \in 1..Len(flushed.obs.map) :
              LET e == flushed.obs.map[r]
              IN  /\ IsPadded(FieldAt(tx, RecordAt(r), 24), e.name)
                  /\ I32At(tx, RecordAt(r) + 24) = RefCode(e.rec.vtype)
                  /\ \A t \in Slots :
                        I32At(tx, RecordAt(r) + 28 + 4 * t) = e.rec.vals[t]
        /\ (NoNul(module) /\ \A e \in Seen : NoNul(e.name)) =>
              Decoded(tx) = Emitted

\* C10 witness: P = 2, module "m", set("a", 7); next; set("a", 9); next
\* emits the 76 bytes of the scenario.
PackageRoundTripNoNulWitness ==
    /\ sendResult = "Ok"
    /\ P = 2
    /\ tx = <<61, 98, 101, 103, 105, 110, 61, 60, 0, 0, 0>>
            \o <<109>> \o [i \in 1..23 |-> 0]
            \o <<97>> \o [i \in 1..23 |-> 0]
            \o <<1, 0, 0, 0, 7, 0, 0, 0, 9, 0, 0, 0>>
            \o <<61, 101, 110, 100, 61>>

\* ------------------------------------------------------------ set and next

\* The ValueType each overload of set declares.
ImpliedType(overload) ==
    IF overload = "i32" THEN "Int"
    ELSE IF overload = "f32" THEN "Float"
    ELSE "Bool"

\* C11: a record's vtype is the type of the overload of the set that
\* registered its name, and no set or next call changes it; a set of a
\* registered name returns Ok whatever its overload, stores its word in
\* vals[current] and leaves the vtype and every other slot as they were.
VtypeFixedAtRegistration ==
    [][/\ \A i \in 1..Len(map) :
             /\ i <= Len(map')
             /\ map'[i].name = map[i].name
             /\ map'[i].rec.vtype = map[i].rec.vtype
       /\ \A c \in RawCalls :
             Set(c[1], c[2], c[3]) =>
                 /\ (c[1] \notin Keys(map) /\ result' = "Ok") =>
                       get(map', c[1]).vtype = ImpliedType(c[2])
                 /\ c[1] \in Keys(map) =>
                       /\ result' = "Ok"
                       /\ get(map', c[1]).vtype = get(map, c[1]).vtype
                       /\ get(map', c[1]).vals =
                             [get(map, c[1]).vals EXCEPT ![current] = c[3]]]_vars

\* C11 witness: "a" registered through i32 and then set through f32 holds the
\* bits of -1.5f32 in the current slot of a record still declared Int.
VtypeFixedAtRegistrationWitness ==
    /\ NameA \in Keys(map)
    /\ get(map, NameA).vtype = "Int"
    /\ lastOverload[NameA] = "f32"
    /\ result = "Ok"
    /\ get(map, NameA).vals[current] = -1077936128

\* A successful set(name, value) leaves value's word in vals[current] of the
\* name's record, whatever the slot held, and leaves the record's other slots
\* as they were.
SetStoresWord(name, val) ==
    result' = "Ok" =>
        /\ get(map', name).vals[current] = val
        /\ name \in Keys(map) =>
              \A s \in Slots \ {current} :
                  get(map', name).vals[s] = get(map, name).vals[s]

\* A successful set leaves the flag of its overload in is_only_front: true
\* for OnlyFront, false for the others.
SetStoresFlag(name, overload) ==
    result' = "Ok" => get(map', name).is_only_front = (overload = "OnlyFront")

\* The word part of C12 alone: every successful set overwrites vals[current]
\* and no other slot, so of several sets in one slot the last one shows.
LastSetWinsWord ==
    [][\A c \in RawCalls :
          Set(c[1], c[2], c[3]) => SetStoresWord(c[1], c[3])]_vars

\* C12 (the claim as stated): every successful set leaves its word in
\* vals[current] and its overload's flag in is_only_front, and no earlier
\* slot of the window is altered; so of several sets of a name with no
\* next call in between the last one shows.
LastSetWins ==
    [][\A c \in RawCalls :
          Set(c[1], c[2], c[3]) =>
              /\ SetStoresWord(c[1], c[3])
              /\ SetStoresFlag(c[1], c[2])]_vars

\* What the call c = <<name, overload, word>> of set returns and leaves, made
\* on the map m with the cursor at current.
SetOn(m, c) ==
    set_value(m, current, c[1], ValueTYPE(c[2]), c[3], ValueONLY_FRONT(c[2]))

\* C13: in every reachable state and for every set call, new name,
\* registered name or overflowing, making the call a second time right after
\* the first returns what the first returned and leaves the map the first
\* left (set does not move the cursor).
SetIdempotent ==
    \A c \in RawCalls :
        LET once == SetOn(map, c)
            twice == SetOn(once.map, c)
        IN  /\ twice.res = once.res
            /\ twice.map = once.map

\* C13 witness: N = 1, three sets and no next call made, the last of them
\* overflowing: set("a", ..) followed by two sets of another name.
SetIdempotentWitness ==
    /\ N = 1
    /\ Keys(map) = {NameA}
    /\ result = "MapOverflow"
    /\ sets = MaxSets - 3
    /\ ticks = MaxTicks

\* The first slot of the ended window in which the signal was set.
FirstSetSlot(name) ==
    CHOOSE s \in flushed.setSlots[name] : \A t \in flushed.setSlots[name] : s <= t

\* In the map the closure is handed, a signal registered during the window
\* that ended shows 0 in every slot before the one it was registered in.
FlushShowsZerosBeforeRegistration ==
    flushed.seen =>
        \A e \in Seen :
            e.name \notin DOMAIN flushed.held =>
                /\ e.name \in DOMAIN flushed.setSlots
                /\ \A s \in Slots :
                      s < FirstSetSlot(e.name) => e.rec.vals[s] = 0

\* C14: the set that registers a name with the cursor at k leaves the
\* record with its word in vals[k] and 0 in every other slot; and the map
\* handed to the closure at the end of that window shows 0 in slots 0..k-1
\* of that signal.
NewRecordIsZeroed ==
    [][/\ \A c \in RawCalls :
             (Set(c[1], c[2], c[3]) /\ c[1] \notin Keys(map) /\ result' = "Ok") =>
                 get(map', c[1]).vals =
                     [s \in Slots |-> IF s = current THEN c[3] ELSE 0]
       /\ FlushShowsZerosBeforeRegistration']_vars

\* C14 witness: P = 3, "a" registered by set("a", 7) in slot 2 and flushed
\* as [0, 0, 7].
NewRecordIsZeroedWitness ==
    /\ P = 3
    /\ flushed.seen
    /\ \E e \in Seen :
          /\ e.name = NameA
          /\ e.name \notin DOMAIN flushed.held
          /\ flushed.setSlots[e.name] = {2}
          /\ e.rec.vals = (0 :> 0) @@ (1 :> 0) @@ (2 :> 7)

\* C15: no set, next or send_package step removes a registered name or
\* moves an entry; the names change only in a successful set of a name not
\* yet registered, which adds that name and no other; and the map never
\* holds more than N signals, nor a name twice.
SignalsNeverRemoved ==
    [][/\ Len(map) <= Len(map')
       /\ \A i \in 1..Len(map) : map'[i].name = map[i].name
       /\ Keys(map') # Keys(map) =>
             \E c \in RawCalls :
                 /\ Set(c[1], c[2], c[3])
                 /\ c[1] \notin Keys(map)
                 /\ result' = "Ok"
                 /\ Keys(map') = Keys(map) \cup {c[1]}
       /\ Len(map') <= N
       /\ Cardinality(Keys(map')) = Len(map')]_vars

\* C15 witness: N = 2, both signals still registered after two send_package
\* calls returned and every set and next call of the run was made.
SignalsNeverRemovedWitness ==
    /\ N = 2
    /\ Len(map) = 2
    /\ Len(sendLog) = 2
    /\ pc = "idle"
    /\ sets = 0
    /\ ticks = 0

\* ------------------------------------------------------------ frames

\* The step leaves P, N, the registered names in their order and every
\* record's vtype and is_only_front as they were, and changes no slot of any
\* record but, at most, slot `slot`.
OnlySlotChanges(slot) ==
    /\ P' = P
    /\ N' = N
    /\ Len(map') = Len(map)
    /\ \A i \in 1..Len(map) :
          /\ map'[i].name = map[i].name
          /\ map'[i].rec.vtype = map[i].rec.vtype
          /\ map'[i].rec.is_only_front = map[i].rec.is_only_front
          /\ DOMAIN map'[i].rec.vals = DOMAIN map[i].rec.vals
          /\ \A s \in Slots \ {slot} :
                map'[i].rec.vals[s] = map[i].rec.vals[s]

\* C18: a next call, its closure looking at the map or sending it, changes
\* only current and, in each record, the slot the cursor moves to; the slot
\* the cursor leaves keeps its value when P > 1. The steps of a next call
\* that sends are the call itself, the sink's answers and the return.
TickFrame ==
    [][(NextObserve \/ ticks' # ticks \/ pc = "send") =>
          /\ OnlySlotChanges(current')
          /\ current' # current =>
                \A i \in 1..Len(map) :
                    map'[i].rec.vals[current] = map[i].rec.vals[current]]_vars

\* C18 witness: P = 3, set("a", 7); next; set("a", 9); next leaves [7, 9, 9]
\* with the cursor on slot 2.
TickFrameWitness ==
    /\ P = 3
    /\ current = 2
    /\ result = "none"
    /\ NameA \in Keys(map)
    /\ get(map, NameA).vals = (0 :> 7) @@ (1 :> 9) @@ (2 :> 9)

\* C19: a successful set(name, value) leaves current and every record but
\* the name's as they were; of a registered name it changes at most
\* vals[current] and is_only_front; a new name it appends as a record of the
\* overload's type, zero in every slot but vals[current].
SetFrame ==
    [][\A c \in RawCalls :
          (Set(c[1], c[2], c[3]) /\ result' = "Ok") =>
              /\ current' = current
              /\ P' = P
              /\ N' = N
              /\ \A i \in 1..Len(map) :
                    map[i].name # c[1] => map'[i] = map[i]
              /\ c[1] \in Keys(map) =>
                    /\ Len(map') = Len(map)
                    /\ \A i \in 1..Len(map) :
                          map[i].name = c[1] =>
                              /\ map'[i].name = c[1]
                              /\ map'[i].rec.vtype = map[i].rec.vtype
                              /\ \A s \in Slots \ {current} :
                                    map'[i].rec.vals[s] = map[i].rec.vals[s]
              /\ c[1] \notin Keys(map) =>
                    /\ Len(map') = Len(map) + 1
                    /\ map'[Len(map')].name = c[1]
                    /\ map'[Len(map')].rec.vtype = ImpliedType(c[2])
                    /\ \A s \in Slots \ {current} :
                          map'[Len(map')].rec.vals[s] = 0]_vars

\* C19 witness: P = 2, set("a", 7); set("bb...b", true); next; set("a", 9)
\* leaves "a" as [7, 9] and "bb...b" as [1, 1].
SetFrameWitness ==
    /\ P = 2
    /\ current = 1
    /\ result = "Ok"
    /\ Keys(map) = {NameA, NameB}
    /\ get(map, NameA).vals = (0 :> 7) @@ (1 :> 9)
    /\ get(map, NameB).vals = (0 :> 1) @@ (1 :> 1)

\* ------------------------------------------------------------ blocking

\* Bytes of the package the bwrite_iter calls before number c stand for.
RECURSIVE ChunkOffset(_)
ChunkOffset(c) ==
    IF c = 0 THEN 0
    ELSE ChunkOffset(c - 1) + Len(ChunkBytes(c - 1, module, Self))

\* The bytes the sink has accepted are the package's first bytes in order,
\* as many as send_package has drawn from its iterators; a call that
\* returned Ok had the whole package accepted.
AcceptedInOrder ==
    /\ sendResult # "none" =>
          /\ Len(tx) <= RefLen
          /\ \A i \in 1..Len(tx) : tx[i] = RefByte(i)
    /\ pc = "send" => Len(tx) = ChunkOffset(chunk) + k
    /\ sendResult = "Ok" => Len(tx) = RefLen

\* A WouldBlock answer changes nothing of send_package's: the same byte, or
\* the same flush, is tried again.
BlockedRetriesSame ==
    blocks' = blocks + 1 =>
        /\ pc' = "send"
        /\ UNCHANGED <<mapVars, callVars, tx, offered, sendResult, sinkError,
                       sendLog>>

\* C20: whatever WouldBlock answers the sink gives, the accepted bytes are
\* the package's bytes, each once and in order; a WouldBlock answer makes
\* send_package try the same byte or flush again; and send_package returns
\* when the sink stops answering WouldBlock (here after MaxBlocks answers in
\* one call at most).
BlockingWriteCompletes ==
    /\ []AcceptedInOrder
    /\ [][BlockedRetriesSame]_vars
    /\ (pc = "send") ~> (pc = "idle")

\* C20 witness: a send_package returned Ok with its 76 bytes accepted after
\* the sink answered WouldBlock MaxBlocks times.
BlockingWriteCompletesWitness ==
    /\ sendResult = "Ok"
    /\ blocks = MaxBlocks
    /\ P = 2
    /\ Len(map) = 1
    /\ Len(tx) = 76

\* ------------------------------------------------------------ names

\* A string the specification admits as a name: 1 to 23 bytes, and neither
\* "=begin=" nor "=end=".
Admissible(str) ==
    /\ Len(str) >= 1
    /\ Len(str) < 24
    /\ str # <<61, 98, 101, 103, 105, 110, 61>>
    /\ str # <<61, 101, 110, 100, 61>>

\* The count of NUL bytes send_package pads a name with is in 1..23, and the
\* padded field is 24 bytes long.
PadsInRange(name) ==
    /\ Len(name) \in 1..23
    /\ (24 - Len(name)) \in 1..23
    /\ Len(Padded(name)) = 24

\* The application's string was made a Name: it is stored in the map, or
\* send_package was called with it.
UsedAsName == map # <<>> \/ pc = "send" \/ sendLog # <<>>

\* C16: Name::new accepts a string exactly when its length is in [1, 24) and
\* it is neither sentinel; it panics on the application's string only when
\* the string is not admissible; and every signal name in the map and every
\* module name send_package is called with has 1 to 23 bytes, so its
\* padding count 24 - len is in 1..23.
NameNewAcceptsAdmissible ==
    /\ \A str \in Candidates : ~NameNew(str).panics <=> Admissible(str)
    /\ pc = "rejected" => ~Admissible(module)
    /\ UsedAsName => (Admissible(module) /\ PadsInRange(module))
    /\ \A i \in 1..Len(map) : PadsInRange(map[i].name)

\* C16 witness: a name of 23 bytes stored in the map and sent as the module
\* name of a complete package, padded with one NUL.
NameNewAcceptsAdmissibleWitness ==
    /\ Len(module) = 23
    /\ Len(map) = 1
    /\ map[1].name = module
    /\ sendResult = "Ok"
    /\ tx[11 + 23] = 98
    /\ tx[11 + 24] = 0

\* The strings C17 lists as rejected, but for the one of 23 bytes.
ListedRejects ==
    {<<>>, Bs(24), <<61, 98, 101, 103, 105, 110, 61>>, <<61, 101, 110, 100, 61>>}

\* Name::new panics on each string of S, and an application whose string is
\* in S never stores it in the map nor calls send_package with it.
NeverNamed(S) ==
    /\ \A str \in S : NameNew(str).panics
    /\ module \in S => ~UsedAsName

\* C17 (the claim as stated): names of length 0, 23 and 24 and the two
\* sentinels are rejected.
NameNewRejectsListed == NeverNamed(ListedRejects \cup {Bs(23)})

\* C17 (amended): names of length 0 and 24 and the two sentinels are
\* rejected; a name of 23 bytes (NAME_MAX - 1) is accepted.
NameNewRejectsInvalid ==
    /\ NeverNamed(ListedRejects)
    /\ ~NameNew(Bs(23)).panics

\* C17 witness: Name::new panicked on a string of 24 bytes.
NameNewRejectsInvalidWitness ==
    /\ pc = "rejected"
    /\ Len(module) = 24
    /\ map = <<>>
    /\ sendLog = <<>>

====
